---------------------------- MODULE Spec2Model ----------------------------
(***************************************************************************)
(* AbstractScene (packages/dev/core/src/abstractScene.ts): the two static  *)
(* parser registries with AddParser / GetParser / AddIndividualParser /    *)
(* GetIndividualParser / Parse, and the scene container with its arrays,   *)
(* the environmentTexture accessor and getNodes().                         *)
(*                                                                         *)
(* The registries are plain JavaScript objects created by {} and used as   *)
(* dictionaries, so the model carries the part of the ECMAScript object    *)
(* semantics that obj[name], obj[name] = v and for..in rest on: own        *)
(* properties in creation order, the prototype link, inherited properties  *)
(* of Object.prototype / Function.prototype, the __proto__ accessor, and   *)
(* the ordering of own keys (array indices first, ascending).              *)
(***************************************************************************)
EXTENDS Integers, Sequences, FiniteSets, TLC

VARIABLES
    BabylonFileParsers,            \* AbstractScene._BabylonFileParsers
    IndividualBabylonFileParsers,  \* AbstractScene._IndividualBabylonFileParsers
    heap,                          \* array reference -> contents (the arrays of one container, of the skeletons, and returned ones)
    environmentTexture,            \* this._environmentTexture
    results,                       \* the arrays the caller holds: those returned by the previous and the latest getNodes()
    lastOp,                        \* the operation that ran last, with its arguments
    ret,                           \* what it returned
    thrown,                        \* what it raised to its caller ("none" when it returned)
    calls,                         \* the parser invocations made by the last Parse, in order
    lastAdded,                     \* history: name -> parser passed to the latest AddParser(name, .)
    lastAddedIndividual,           \* history: name -> parser passed to the latest AddIndividualParser(name, .)
    regOrder                       \* history: names in the order of their first AddParser call

vars == <<BabylonFileParsers, IndividualBabylonFileParsers, heap, environmentTexture,
          results, lastOp, ret, thrown, calls, lastAdded, lastAddedIndividual, regOrder>>

registryVars == <<BabylonFileParsers, IndividualBabylonFileParsers,
                  lastAdded, lastAddedIndividual, regOrder>>

containerVars == <<heap, environmentTexture, results>>

-----------------------------------------------------------------------------
(* Bounds of the model *)

\* most own properties a registry object gets
MaxKeys == 3
\* most elements held by the arrays of the container and its skeletons together
MaxTotal == 2
\* most meshes the parsers get to add to the container
MaxMeshes == 3

-----------------------------------------------------------------------------
(* JavaScript values *)

Fn(id) == [t |-> "function", v |-> id]
Obj(id) == [t |-> "object", v |-> id]
Num(str) == [t |-> "number", v |-> str]
Str(str) == [t |-> "string", v |-> str]
JsNull == [t |-> "null", v |-> "null"]
JsUndefined == [t |-> "undefined", v |-> "undefined"]

ObjectPrototype == Obj("Object.prototype")
FunctionPrototype == Fn("Function.prototype")

\* ToBoolean, as used by if (...)
ToBoolean(x) ==
    CASE x.t \in {"null", "undefined"} -> FALSE
      [] x.t = "number" -> x.v \notin {"0", "NaN"}
      [] x.t = "string" -> x.v # ""
      [] OTHER -> TRUE

-----------------------------------------------------------------------------
(* Property names: strings, as sequences of characters *)

N_a == <<"a">>
N_2 == <<"2">>
N_10 == <<"1", "0">>
N_toString == <<"t", "o", "S", "t", "r", "i", "n", "g">>
N_length == <<"l", "e", "n", "g", "t", "h">>
N_name == <<"n", "a", "m", "e">>
N_proto == <<"_", "_", "p", "r", "o", "t", "o", "_", "_">>

Names == {N_a, N_2, N_10, N_toString, N_length, N_proto}
SharedNames == {N_a, N_proto}

Digits == <<"0", "1", "2", "3", "4", "5", "6", "7", "8", "9">>
IsDigit(c) == \E i \in 1..10 : Digits[i] = c
DigitValue(c) == (CHOOSE i \in 1..10 : Digits[i] = c) - 1

RECURSIVE ToNumber(_)
ToNumber(s) ==
    IF Len(s) = 0 THEN 0
    ELSE 10 * ToNumber(SubSeq(s, 1, Len(s) - 1)) + DigitValue(s[Len(s)])

\* An array index is a canonical numeric string for an integer in 0 .. 2^32 - 2
\* (short strings only here, so the upper limit is checked on the length).
IsArrayIndex(s) ==
    /\ Len(s) >= 1
    /\ Len(s) <= 9
    /\ \A i \in 1..Len(s) : IsDigit(s[i])
    /\ (Len(s) > 1 => s[1] # "0")


\* The array-index keys of a set, ascending by numeric value.
RECURSIVE SortAscending(_)
SortAscending(S) ==
    IF S = {} THEN <<>>
    ELSE LET least == CHOOSE x \in S : \A y \in S : ToNumber(x) <= ToNumber(y)
         IN  <<least>> \o SortAscending(S \ {least})

RECURSIVE SelectKeys(_, _)
SelectKeys(keys, wantIndex) ==
    IF keys = <<>> THEN <<>>
    ELSE IF IsArrayIndex(Head(keys)) = wantIndex
         THEN <<Head(keys)>> \o SelectKeys(Tail(keys), wantIndex)
         ELSE SelectKeys(Tail(keys), wantIndex)

Range(seq) == {seq[i] : i \in 1..Len(seq)}

-----------------------------------------------------------------------------
(* Parser functions handed to the registries *)

WholeParsers == {Fn("p1"), Fn("p2")}
IndividualParsers == {Fn("q1"), Fn("q2")}

\* Number of declared parameters of a function of each contract, as the
\* value of its "length" property.
FnLength(f) ==
    IF f \in WholeParsers THEN Num("4")
    ELSE IF f \in IndividualParsers THEN Num("3")
    ELSE Num("0")

-----------------------------------------------------------------------------
(* Objects: own properties, prototype chain, [[Get]], [[Set]], own keys *)

NoProperty == [found |-> FALSE, kind |-> "none", value |-> JsUndefined, writable |-> FALSE]
DataProperty(v, w) == [found |-> TRUE, kind |-> "data", value |-> v, writable |-> w]
AccessorProperty == [found |-> TRUE, kind |-> "accessor", value |-> JsUndefined, writable |-> FALSE]

\* The prototype of a built-in object or of a function.
PrototypeOf(o) ==
    IF o = ObjectPrototype THEN JsNull
    ELSE IF o = FunctionPrototype THEN ObjectPrototype
    ELSE IF o.t = "function" THEN FunctionPrototype
    ELSE JsNull

\* The own property `name` of a built-in object or of a function
\* (none of them is enumerable).
BuiltinOwnProperty(o, name) ==
    IF o = ObjectPrototype THEN
        CASE name = N_toString -> DataProperty(Fn("Object.prototype.toString"), TRUE)
          [] name = N_proto -> AccessorProperty
          [] OTHER -> NoProperty
    ELSE IF o = FunctionPrototype THEN
        CASE name = N_toString -> DataProperty(Fn("Function.prototype.toString"), TRUE)
          [] name = N_length -> DataProperty(Num("0"), FALSE)
          [] name = N_name -> DataProperty(Str(""), FALSE)
          [] OTHER -> NoProperty
    ELSE IF o.t = "function" THEN
        CASE name = N_length -> DataProperty(FnLength(o), FALSE)
          [] name = N_name -> DataProperty(Str(o.v), FALSE)
          [] OTHER -> NoProperty
    ELSE NoProperty

\* First property `name` found from o up its prototype chain.
RECURSIVE LookupChain(_, _)
LookupChain(o, name) ==
    IF o = JsNull THEN NoProperty
    ELSE LET own == BuiltinOwnProperty(o, name)
         IN  IF own.found THEN own ELSE LookupChain(PrototypeOf(o), name)

\* The object literal {}: no own property, prototype Object.prototype.
EmptyObject == [keys |-> <<>>, val |-> <<>>, proto |-> ObjectPrototype]

HasOwnProperty(obj, name) == \E i \in 1..Len(obj.keys) : obj.keys[i] = name

OwnValue(obj, name) == obj.val[CHOOSE i \in 1..Len(obj.keys) : obj.keys[i] = name]

\* obj[name]
ObjGet(obj, name) ==
    IF HasOwnProperty(obj, name) THEN OwnValue(obj, name)
    ELSE LET p == LookupChain(obj.proto, name)
         IN  IF ~p.found THEN JsUndefined
             ELSE IF p.kind = "accessor" THEN obj.proto   \* get __proto__
             ELSE p.value

\* obj[name] = v in strict code: the object afterwards, and whether the
\* assignment raised a TypeError.
ObjSet(obj, name, v) ==
    IF HasOwnProperty(obj, name)
    THEN [obj |-> [obj EXCEPT !.val[CHOOSE i \in 1..Len(obj.keys) : obj.keys[i] = name] = v],
          threw |-> FALSE]
    ELSE LET p == LookupChain(obj.proto, name)
         IN  IF p.found /\ p.kind = "accessor"          \* set __proto__
             THEN IF v.t \in {"function", "object", "null"}
                  THEN [obj |-> [obj EXCEPT !.proto = v], threw |-> FALSE]
                  ELSE [obj |-> obj, threw |-> FALSE]
             ELSE IF p.found /\ ~p.writable
             THEN [obj |-> obj, threw |-> TRUE]
             ELSE [obj |-> [obj EXCEPT !.keys = Append(@, name), !.val = Append(@, v)],
                   threw |-> FALSE]

\* [[OwnPropertyKeys]]: array indices ascending, then the other keys in
\* creation order.
OwnPropertyKeys_creationOrder(obj) == obj.keys

OwnPropertyKeys(obj) ==
    SortAscending(Range(SelectKeys(obj.keys, TRUE))) \o SelectKeys(obj.keys, FALSE)

\* The names for (const k in obj) visits: the own keys, then the enumerable
\* properties up the prototype chain, of which the built-ins and functions
\* have none.
ForInKeys(obj) == OwnPropertyKeys(obj)

-----------------------------------------------------------------------------
(* The container: its arrays, the skeletons' bone arrays, returned arrays *)

\* The sixteen array fields of the class; a field's reference is its name.
ContainerFields ==
    {"rootNodes", "cameras", "lights", "meshes", "skeletons", "particleSystems",
     "animations", "animationGroups", "multiMaterials", "materials",
     "morphTargetManagers", "geometries", "transformNodes", "actionManagers",
     "textures", "postProcesses"}

Skeletons == {"skeleton1", "skeleton2"}
BonesRef(sk) == IF sk = "skeleton1" THEN "skeleton1.bones" ELSE "skeleton2.bones"
BoneRefs == {BonesRef(sk) : sk \in Skeletons}

\* References of the arrays that getNodes() allocates for its callers.
ResultRefs == <<"nodes#1", "nodes#2", "nodes#3", "nodes#4", "nodes#5", "nodes#6">>

\* What each array holds (the element type of the field).
ElementsOf(ref) ==
    CASE ref = "meshes" -> {"mesh1", "mesh2"}
      [] ref = "lights" -> {"light1"}
      [] ref = "cameras" -> {"camera1"}
      [] ref = "transformNodes" -> {"transformNode1"}
      [] ref = "skeletons" -> Skeletons
      [] ref \in BoneRefs -> {"bone1", "bone2"}
      [] ref = "rootNodes" -> {"mesh1", "bone1"}
      [] ref = "materials" -> {"material1"}
      [] ref = "textures" -> {"texture1"}
      [] ref = "geometries" -> {"geometry1"}
      [] ref = "particleSystems" -> {"particleSystem1"}
      [] ref = "animations" -> {"animation1"}
      [] ref = "animationGroups" -> {"animationGroup1"}
      [] ref = "multiMaterials" -> {"multiMaterial1"}
      [] ref = "morphTargetManagers" -> {"morphTargetManager1"}
      [] ref = "actionManagers" -> {"actionManager1"}
      [] ref = "postProcesses" -> {"postProcess1"}

Textures == {"texture1", "texture2"}

\* The field initialisers: every array empty.
NewArrays == [ref \in ContainerFields |-> <<>>]

RECURSIVE SumLen(_, _)
SumLen(h, refs) ==
    IF refs = {} THEN 0
    ELSE LET r == CHOOSE x \in refs : TRUE
         IN  Len(h[r]) + SumLen(h, refs \ {r})

Total(h) == SumLen(h, ContainerFields \cup BoneRefs)

\* Array.prototype.concat with an array argument: a new array holding the
\* elements of both.
Concat(a, b) == a \o b

\* this.skeletons.forEach((skeleton) => (nodes = nodes.concat(skeleton.bones)))
RECURSIVE ForEachSkeleton(_, _, _)
ForEachSkeleton(h, skeletons, nodes) ==
    IF skeletons = <<>> THEN nodes
    ELSE ForEachSkeleton(h, Tail(skeletons), Concat(nodes, h[BonesRef(Head(skeletons))]))

getNodes_withRootNodes(h) ==
    ForEachSkeleton(h, h["skeletons"],
        Concat(Concat(Concat(Concat(Concat(<<>>, h["rootNodes"]), h["meshes"]), h["lights"]),
                      h["cameras"]), h["transformNodes"]))

\* The contents of the array getNodes() returns.
getNodes(h) ==
    LET nodes0 == <<>>
        nodes1 == Concat(nodes0, h["meshes"])
        nodes2 == Concat(nodes1, h["lights"])
        nodes3 == Concat(nodes2, h["cameras"])
        nodes4 == Concat(nodes3, h["transformNodes"])
    IN  ForEachSkeleton(h, h["skeletons"], nodes4)

FreshRef(h) == ResultRefs[CHOOSE i \in 1..Len(ResultRefs) :
                              /\ ResultRefs[i] \notin DOMAIN h
                              /\ \A j \in 1..(i - 1) : ResultRefs[j] \in DOMAIN h]

getNodesRef_aliasMeshes(h) ==
    IF /\ h["lights"] = <<>> /\ h["cameras"] = <<>> /\ h["transformNodes"] = <<>>
       /\ h["skeletons"] = <<>>
    THEN "meshes"
    ELSE FreshRef(h)

\* The array getNodes() returns: new Array() and every concat allocate, so
\* the one returned is always a new one.
getNodesRef(h) == FreshRef(h)

-----------------------------------------------------------------------------
(* The registered parsers, as far as Parse can tell them apart *)

Data == {"d1", "d2"}
Scenes == {"scene1"}
Containers == {"container1"}
RootUrls == {"http://host/"}

\* A whole-scene parser may raise, depending on the data it is handed.
ParserRaises(fn, args) == fn = Fn("p2") /\ args[1] = "d2"

\* What a whole-scene parser that does not raise adds to container.meshes.
ParserMesh(fn) == IF fn = Fn("p1") THEN "mesh1" ELSE "mesh2"

-----------------------------------------------------------------------------
(* Registry operations *)

\* GetParser(name)
GetParser(name) ==
    IF ToBoolean(ObjGet(BabylonFileParsers, name))
    THEN ObjGet(BabylonFileParsers, name)
    ELSE JsNull

\* GetIndividualParser(name)
GetIndividualParser(name) ==
    IF ToBoolean(ObjGet(IndividualBabylonFileParsers, name))
    THEN ObjGet(IndividualBabylonFileParsers, name)
    ELSE JsNull

\* One call fn(jsonData, scene, container, rootUrl) of the loop of Parse.
Invoke(fn, parserName, args, st) ==
    LET call == [name |-> parserName, fn |-> fn, args |-> args]
    IN  IF fn.t # "function"
        THEN [st EXCEPT !.thrown = "TypeError"]
        ELSE IF ParserRaises(fn, args)
        THEN [st EXCEPT !.calls = Append(@, call), !.thrown = fn.v]
        ELSE [st EXCEPT !.calls = Append(@, call), !.meshes = Append(@, ParserMesh(fn))]

Dispatch_continueAfterRaise(obj, keys, args, st) ==
    LET F[i \in 0..Len(keys)] ==
            IF i = 0 THEN st
            ELSE LET r == Invoke(ObjGet(obj, keys[i]), keys[i], args, F[i - 1])
                 IN  [r EXCEPT !.thrown = IF F[i - 1].thrown # "none" THEN F[i - 1].thrown ELSE @]
    IN  F[Len(keys)]

\* The loop of Parse over the remaining keys; a raised condition ends it.
RECURSIVE Dispatch(_, _, _, _)
Dispatch(obj, keys, args, st) ==
    IF keys = <<>> \/ st.thrown # "none" THEN st
    ELSE IF ~HasOwnProperty(obj, Head(keys))
         THEN Dispatch(obj, Tail(keys), args, st)
         ELSE Dispatch(obj, Tail(keys), args,
                       Invoke(ObjGet(obj, Head(keys)), Head(keys), args, st))

None == [t |-> "none", v |-> "none"]

Init ==
    /\ BabylonFileParsers = EmptyObject
    /\ IndividualBabylonFileParsers = EmptyObject
    /\ heap = [ref \in ContainerFields \cup BoneRefs |-> <<>>]
    /\ environmentTexture = JsNull
    /\ results = <<>>
    /\ lastOp = [op |-> "new", args |-> <<>>]
    /\ ret = JsUndefined
    /\ thrown = "none"
    /\ calls = <<>>
    /\ lastAdded = [n \in Names |-> None]
    /\ lastAddedIndividual = [n \in Names |-> None]
    /\ regOrder = <<>>

\* AddParser(name, parser)
AddParser(name, parser) ==
    LET r == ObjSet(BabylonFileParsers, name, parser)
    IN  /\ Len(r.obj.keys) <= MaxKeys
        /\ BabylonFileParsers' = r.obj
        /\ thrown' = IF r.threw THEN "TypeError" ELSE "none"
        /\ ret' = JsUndefined
        /\ calls' = <<>>
        /\ lastOp' = [op |-> "AddParser", args |-> <<>>]
        /\ lastAdded' = [lastAdded EXCEPT ![name] = parser]
        /\ regOrder' = IF name \in Range(regOrder) THEN regOrder ELSE Append(regOrder, name)
        /\ UNCHANGED <<IndividualBabylonFileParsers, lastAddedIndividual, containerVars>>

\* GetParser(name), called
GetParserCall(name) ==
    /\ ret' = GetParser(name)
    /\ thrown' = "none"
    /\ calls' = <<>>
    /\ lastOp' = [op |-> "GetParser", args |-> <<name>>]
    /\ UNCHANGED <<registryVars, containerVars>>

AddIndividualParser_intoWholeSceneMap(name, parser) ==
    LET r == ObjSet(BabylonFileParsers, name, parser)
    IN  /\ Len(r.obj.keys) <= MaxKeys
        /\ BabylonFileParsers' = r.obj
        /\ thrown' = IF r.threw THEN "TypeError" ELSE "none"
        /\ ret' = JsUndefined
        /\ calls' = <<>>
        /\ lastOp' = [op |-> "AddIndividualParser", args |-> <<>>]
        /\ lastAddedIndividual' = [lastAddedIndividual EXCEPT ![name] = parser]
        /\ UNCHANGED <<IndividualBabylonFileParsers, lastAdded, regOrder, containerVars>>

\* AddIndividualParser(name, parser)
AddIndividualParser(name, parser) ==
    LET r == ObjSet(IndividualBabylonFileParsers, name, parser)
    IN  /\ Len(r.obj.keys) <= MaxKeys
        /\ IndividualBabylonFileParsers' = r.obj
        /\ thrown' = IF r.threw THEN "TypeError" ELSE "none"
        /\ ret' = JsUndefined
        /\ calls' = <<>>
        /\ lastOp' = [op |-> "AddIndividualParser", args |-> <<>>]
        /\ lastAddedIndividual' = [lastAddedIndividual EXCEPT ![name] = parser]
        /\ UNCHANGED <<BabylonFileParsers, lastAdded, regOrder, containerVars>>

\* GetIndividualParser(name), called
GetIndividualParserCall(name) ==
    /\ ret' = GetIndividualParser(name)
    /\ thrown' = "none"
    /\ calls' = <<>>
    /\ lastOp' = [op |-> "GetIndividualParser", args |-> <<name>>]
    /\ UNCHANGED <<registryVars, containerVars>>

\* Parse(jsonData, scene, container, rootUrl), the container being the
\* modelled one
Parse(jsonData, scene, container, rootUrl) ==
    LET args == <<jsonData, scene, container, rootUrl>>
        st == Dispatch(BabylonFileParsers, ForInKeys(BabylonFileParsers), args,
                       [calls |-> <<>>, thrown |-> "none", meshes |-> heap["meshes"]])
    IN  /\ Len(heap["meshes"]) + Len(BabylonFileParsers.keys) <= MaxMeshes
        /\ heap' = [heap EXCEPT !["meshes"] = st.meshes]
        /\ calls' = st.calls
        /\ thrown' = st.thrown
        /\ ret' = JsUndefined
        /\ lastOp' = [op |-> "Parse", args |-> args]
        /\ UNCHANGED <<registryVars, environmentTexture, results>>

-----------------------------------------------------------------------------
(* Container operations *)

\* new: the field initialisers of a fresh container
NewContainer ==
    /\ heap' = [ref \in DOMAIN heap |-> IF ref \in ContainerFields THEN NewArrays[ref] ELSE heap[ref]]
    /\ environmentTexture' = JsNull
    /\ ret' = JsUndefined
    /\ thrown' = "none"
    /\ calls' = <<>>
    /\ lastOp' = [op |-> "new", args |-> <<>>]
    /\ UNCHANGED <<registryVars, results>>

\* array.push(e) on one of the public arrays, or on a skeleton's bones, by
\* the code that owns the entities
Push(ref, e) ==
    /\ Total(heap) < MaxTotal
    /\ heap' = [heap EXCEPT ![ref] = Append(@, e)]
    /\ ret' = JsUndefined
    /\ thrown' = "none"
    /\ calls' = <<>>
    /\ lastOp' = [op |-> "push", args |-> <<>>]
    /\ UNCHANGED <<registryVars, environmentTexture, results>>

SetEnvironmentTexture_ignoreNull(value) ==
    /\ environmentTexture' = IF ToBoolean(value) THEN value ELSE environmentTexture
    /\ ret' = JsUndefined
    /\ thrown' = "none"
    /\ calls' = <<>>
    /\ lastOp' = [op |-> "setEnvironmentTexture", args |-> <<value>>]
    /\ UNCHANGED <<registryVars, heap, results>>

\* set environmentTexture(value)
SetEnvironmentTexture(value) ==
    /\ environmentTexture' = value
    /\ ret' = JsUndefined
    /\ thrown' = "none"
    /\ calls' = <<>>
    /\ lastOp' = [op |-> "setEnvironmentTexture", args |-> <<value>>]
    /\ UNCHANGED <<registryVars, heap, results>>

\* get environmentTexture()
GetEnvironmentTexture ==
    /\ ret' = environmentTexture
    /\ thrown' = "none"
    /\ calls' = <<>>
    /\ lastOp' = [op |-> "getEnvironmentTexture", args |-> <<>>]
    /\ UNCHANGED <<registryVars, containerVars>>

\* getNodes(), called. The caller keeps the returned array next to the one
\* of the call before; an older one is let go and collected.
GetNodesCall ==
    LET r == getNodesRef(heap)
        nodes == getNodes(heap)
        kept == IF results = <<>> THEN <<>> ELSE <<results[Len(results)]>>
        live == (ContainerFields \cup BoneRefs) \cup Range(kept) \cup {r}
    IN  /\ heap' = [ref \in live |-> IF ref = r THEN nodes ELSE heap[ref]]
        /\ results' = Append(kept, r)
        /\ ret' = [t |-> "array", v |-> r]
        /\ thrown' = "none"
        /\ calls' = <<>>
        /\ lastOp' = [op |-> "getNodes", args |-> <<>>]
        /\ UNCHANGED <<registryVars, environmentTexture>>

\* the caller changes an array it got from getNodes(): result.length = 0
MutateResult(i) ==
    LET r == results[i]
    IN  /\ heap[r] # <<>>
        /\ heap' = [heap EXCEPT ![r] = <<>>]
        /\ ret' = JsUndefined
        /\ thrown' = "none"
        /\ calls' = <<>>
        /\ lastOp' = [op |-> "mutateResult", args |-> <<r>>]
        /\ UNCHANGED <<registryVars, environmentTexture, results>>

-----------------------------------------------------------------------------
(* Specifications *)

LookupNames == {N_a, N_toString, N_length, N_proto}
ParseNames == {N_a, N_toString, N_2, N_10, N_proto}

\* The whole-scene registry: registration and lookup.
Next ==
    \/ \E name \in LookupNames, parser \in WholeParsers : AddParser(name, parser)
    \/ \E name \in LookupNames : GetParserCall(name)

Spec == Init /\ [][Next]_vars

\* The whole-scene registry: registration and dispatch.
NextParse ==
    \/ \E name \in ParseNames, parser \in WholeParsers : AddParser(name, parser)
    \/ \E d \in Data, s \in Scenes, c \in Containers, u \in RootUrls : Parse(d, s, c, u)
    \/ NewContainer

SpecParse == Init /\ [][NextParse]_vars

\* Both registries side by side, over the same names.
NextRegistries ==
    \/ \E name \in SharedNames, parser \in WholeParsers : AddParser(name, parser)
    \/ \E name \in SharedNames : GetParserCall(name)
    \/ \E name \in SharedNames, parser \in IndividualParsers : AddIndividualParser(name, parser)
    \/ \E name \in SharedNames : GetIndividualParserCall(name)
    \/ \E d \in Data, s \in Scenes, c \in Containers, u \in RootUrls : Parse(d, s, c, u)
    \/ NewContainer

SpecRegistries == Init /\ [][NextRegistries]_vars

\* One container and the arrays handed out by getNodes().
NextContainer ==
    \/ \E ref \in ContainerFields \cup BoneRefs : \E e \in ElementsOf(ref) : Push(ref, e)
    \/ GetNodesCall
    \/ \E i \in 1..Len(results) : MutateResult(i)

SpecContainer == Init /\ [][NextContainer]_vars

\* One container and its environment texture.
NextEnvironment ==
    \/ NewContainer
    \/ \E ref \in ContainerFields \cup BoneRefs : \E e \in ElementsOf(ref) : Push(ref, e)
    \/ \E value \in {Obj(t) : t \in Textures} \cup {JsNull} : SetEnvironmentTexture(value)
    \/ GetEnvironmentTexture

SpecEnvironment == Init /\ [][NextEnvironment]_vars

-----------------------------------------------------------------------------
(* Properties *)

Registered(n) == lastAdded[n] # None
CalledNames == {calls[i].name : i \in 1..Len(calls)}
CallPos(n) == CHOOSE i \in 1..Len(calls) : calls[i].name = n
RegPos(n) == CHOOSE i \in 1..Len(regOrder) : regOrder[i] = n
ContainerRefs == ContainerFields \cup BoneRefs

\* C1: a Parse in which no parser raises invokes, for every name passed to
\* AddParser so far, the parser passed last under that name, exactly once
\* and with the four arguments Parse received, and invokes nothing else.
C1_ParseInvokesEveryRegisteredParserOnce ==
    (lastOp.op = "Parse" /\ thrown = "none") =>
        /\ \A n \in Names : Registered(n) =>
               Cardinality({i \in 1..Len(calls) :
                               /\ calls[i].name = n
                               /\ calls[i].fn = lastAdded[n]
                               /\ calls[i].args = lastOp.args}) = 1
        /\ Len(calls) = Cardinality({n \in Names : Registered(n)})

\* C2: when the k-th parser in dispatch order raises, Parse has invoked
\* exactly the first k parsers, the raised condition is what Parse's caller
\* gets, and the meshes the first k-1 parsers added are in the container
\* after what it held before.
C2_ParseFailsFastKeepingEarlierEffects ==
    [][ lastOp'.op = "Parse" =>
          LET order == OwnPropertyKeys(BabylonFileParsers)
              fnAt(i) == ObjGet(BabylonFileParsers, order[i])
              raising == {i \in 1..Len(order) : ParserRaises(fnAt(i), lastOp'.args)}
          IN  /\ (thrown' # "none") = (raising # {})
              /\ raising # {} =>
                   LET k == CHOOSE i \in raising : \A j \in raising : i <= j
                   IN  /\ thrown' = fnAt(k).v
                       /\ Len(calls') = k
                       /\ \A i \in 1..k : calls'[i].name = order[i] /\ calls'[i].fn = fnAt(i)
                       /\ heap'["meshes"] = heap["meshes"] \o [i \in 1..(k - 1) |-> ParserMesh(fnAt(i))]
      ]_vars

\* C2 witness: the second of three registered parsers raised, the first
\* one's mesh is in the container and the third was not invoked.
C2_Witness ==
    /\ lastOp.op = "Parse"
    /\ thrown = "p2"
    /\ Len(BabylonFileParsers.keys) = 3
    /\ Len(calls) = 2
    /\ heap["meshes"] = <<"mesh1">>

\* C3: GetParser(name) returns the parser passed to the latest
\* AddParser(name, .), and GetIndividualParser(name) the one passed to the
\* latest AddIndividualParser(name, .).
C3_LookupReturnsLatestRegistration ==
    /\ (lastOp.op = "GetParser" /\ lastAdded[lastOp.args[1]] # None) =>
           (thrown = "none" /\ ret = lastAdded[lastOp.args[1]])
    /\ (lastOp.op = "GetIndividualParser" /\ lastAddedIndividual[lastOp.args[1]] # None) =>
           (thrown = "none" /\ ret = lastAddedIndividual[lastOp.args[1]])

\* C4: for a name never passed to AddParser, GetParser(name) returns null
\* and does not raise; for a name never passed to AddIndividualParser,
\* GetIndividualParser(name) returns null and does not raise.
C4_LookupOfUnregisteredNameIsNull ==
    /\ (lastOp.op = "GetParser" /\ lastAdded[lastOp.args[1]] = None) =>
           (thrown = "none" /\ ret = JsNull)
    /\ (lastOp.op = "GetIndividualParser" /\ lastAddedIndividual[lastOp.args[1]] = None) =>
           (thrown = "none" /\ ret = JsNull)

\* The bones of the skeletons of a sequence, skeleton after skeleton.
RECURSIVE BonesOf(_, _)
BonesOf(h, sks) ==
    IF sks = <<>> THEN <<>>
    ELSE BonesOf(h, SubSeq(sks, 1, Len(sks) - 1)) \o h[BonesRef(sks[Len(sks)])]

C6_GetNodesReturnsASnapshot ==
    [][ /\ Range(results') \cap ContainerRefs = {}
        /\ \A i, j \in 1..Len(results') : i # j => results'[i] # results'[j]
        /\ lastOp'.op \in {"getNodes", "mutateResult"} =>
               /\ \A ref \in ContainerRefs : heap'[ref] = heap[ref]
               /\ getNodes(heap') = getNodes(heap)
        /\ lastOp'.op = "getNodes" =>
               \A i \in 1..Len(results) :
                   results[i] \in Range(results') => heap'[results[i]] = heap[results[i]]
      ]_vars

\* C6 witness: of two arrays returned for the same non-empty container the
\* first was emptied by the caller; the second and the container still hold
\* the nodes.
C6_Witness ==
    /\ lastOp.op = "mutateResult"
    /\ Len(results) = 2
    /\ heap[results[1]] = <<>>
    /\ heap[results[2]] # <<>>
    /\ heap[results[2]] = getNodes(heap)

\* C7 as claimed: of two names whose parsers Parse invokes, the one
\* registered first has its parser invoked first.
C7_ParseFollowsRegistrationOrder ==
    lastOp.op = "Parse" =>
        \A a, b \in CalledNames : RegPos(a) < RegPos(b) => CallPos(a) < CallPos(b)

\* C7, amended: Parse invokes the parsers in the order of the own keys of
\* the registry object: names that are array indices first, ascending by
\* value, then the other names in the order of their first registration;
\* each invoked parser is the one registered last under its name.
C7_ParseFollowsOwnKeyOrder ==
    lastOp.op = "Parse" =>
        /\ \A i, j \in 1..Len(calls) : i < j =>
              LET a == calls[i].name
                  b == calls[j].name
              IN  \/ IsArrayIndex(a) /\ IsArrayIndex(b) /\ ToNumber(a) < ToNumber(b)
                  \/ IsArrayIndex(a) /\ ~IsArrayIndex(b)
                  \/ ~IsArrayIndex(a) /\ ~IsArrayIndex(b) /\ RegPos(a) < RegPos(b)
        /\ \A i \in 1..Len(calls) : calls[i].fn = lastAdded[calls[i].name]

\* C7 witness: "a", then "10", then "2" were registered, "a" with the
\* parser p2, and a Parse without a raise invoked all three.
C7_Witness ==
    /\ lastOp.op = "Parse"
    /\ thrown = "none"
    /\ regOrder = <<N_a, N_10, N_2>>
    /\ BabylonFileParsers.val[1] = Fn("p2")
    /\ Len(calls) = 3

\* C8: environmentTexture is null in a new container; a set stores the
\* value it is given, null included; a get returns the stored value; no
\* other operation changes it, and neither get nor set changes an array.
C8_EnvironmentTextureIsTheLastSet ==
    [][ /\ lastOp'.op = "new" => environmentTexture' = JsNull
        /\ lastOp'.op = "setEnvironmentTexture" =>
               (environmentTexture' = lastOp'.args[1] /\ heap' = heap)
        /\ lastOp'.op = "getEnvironmentTexture" =>
               (ret' = environmentTexture /\ environmentTexture' = environmentTexture /\ heap' = heap)
        /\ lastOp'.op \notin {"new", "setEnvironmentTexture"} =>
               environmentTexture' = environmentTexture
      ]_vars

\* C8 witness: a get returned the texture set before, in a container that
\* holds elements.
C8_Witness ==
    /\ lastOp.op = "getEnvironmentTexture"
    /\ ret = Obj("texture2")
    /\ Total(heap) > 0

\* C9: a name passed to AddParser stays registered: GetParser(name) is a
\* parser, and a Parse in which no parser raises invokes the parser of
\* that name.
C9_RegisteredNamesStayRegistered ==
    \A n \in Names : Registered(n) =>
        /\ GetParser(n) \in WholeParsers
        /\ (lastOp.op = "Parse" /\ thrown = "none") => n \in CalledNames

\* What Parse would dispatch to: the own keys in order, with their values.
Dispatched ==
    [i \in 1..Len(ForInKeys(BabylonFileParsers)) |->
        <<ForInKeys(BabylonFileParsers)[i], ObjGet(BabylonFileParsers, ForInKeys(BabylonFileParsers)[i])>>]

\* C10: AddParser leaves every GetIndividualParser result as it was;
\* AddIndividualParser leaves every GetParser result and what Parse
\* dispatches to as they were; Parse invokes no individual parser.
C10_RegistriesAreIndependent ==
    [][ /\ lastOp'.op = "AddParser" =>
               \A n \in Names : GetIndividualParser(n)' = GetIndividualParser(n)
        /\ lastOp'.op = "AddIndividualParser" =>
               /\ \A n \in Names : GetParser(n)' = GetParser(n)
               /\ Dispatched' = Dispatched
        /\ lastOp'.op = "Parse" =>
               \A i \in 1..Len(calls') : calls'[i].fn \notin IndividualParsers
      ]_vars

\* C10 witness: "a" is registered in both maps, with different functions,
\* and Parse invoked the whole-scene one.
C10_Witness ==
    /\ lastOp.op = "Parse"
    /\ GetParser(N_a) \in WholeParsers
    /\ GetIndividualParser(N_a) \in IndividualParsers
    /\ Len(calls) = 1
    /\ calls[1].fn = GetParser(N_a)

=============================================================================
